---- MODULE Spec2Model ----
(***************************************************************************)
(* A model of conda_env/env.py (Environment, Dependencies, the loader and  *)
(* from_environment) and of the memoised yaml parsers of                  *)
(* conda/common/serialize.py.                                             *)
(*                                                                         *)
(* Python values are tagged records [t, k, v]: t is the type, v the        *)
(* payload, k the key of a single-key dict.  A str is its sequence of     *)
(* one-character strings, so that splitting and lower-casing are computed *)
(* and not assumed.                                                       *)
(***************************************************************************)
EXTENDS Naturals, Sequences, FiniteSets, TLC

VARIABLES
    \* the Environment object (self.*), self.dependencies being raw + deps
    name, filename, prefix, variables, channels, raw, deps,
    \* what the last operation was, its argument and the state it started from
    lastOp, raw0, added, reparsed, before, chanBefore, chanArg,
    \* what to_dict, to_yaml returned (None after any other call), and from_yaml
    doc, yamlstr, data, loaded,
    \* load_from_directory
    fs, directory0, directory, fidx, pc, tried,
    \* from_environment
    precs, context_channels, no_builds, ignore_channels, from_history, history,
    \* the lru_cache of _yaml_round_trip / _yaml_safe and the threads calling it
    cache, tpc, tkind, tparser, created, calls

varsEnv == <<name, filename, prefix, variables, channels, raw, deps>>
varsAux == <<lastOp, raw0, added, reparsed, before, chanBefore, chanArg>>
varsYaml == <<doc, yamlstr, data, loaded>>
varsDir == <<fs, directory0, directory, fidx, pc, tried>>
varsLive == <<precs, context_channels, no_builds, ignore_channels, from_history, history>>
varsCache == <<cache, tpc, tkind, tparser, created, calls>>
vars == <<varsEnv, varsAux, varsYaml, varsDir, varsLive, varsCache>>

----------------------------------------------------------------------------
(* Bounds of the model *)

\* longest raw dependency sequence handed to Dependencies(raw)
MaxRaw == 3
\* number of Dependencies.add calls
MaxAdd == 2
\* number of further Dependencies.parse calls
MaxParse == 2

----------------------------------------------------------------------------
(* Python values *)

None == [t |-> "none", k |-> "", v |-> <<>>]
Str(cs) == [t |-> "str", k |-> "", v |-> cs]
List(xs) == [t |-> "list", k |-> "", v |-> xs]
\* a single-key dict {key: [..]}; v is the list object it holds
Dict1(key, xs) == [t |-> "dict", k |-> key, v |-> xs]

\* Python truthiness of None, a str and a list
Truthy(x) == x.t # "none" /\ x.v # <<>>

SeqsUpTo(S, n) == UNION {[1..m -> S] : m \in 0..n}

Range(f) == {f[i] : i \in DOMAIN f}

----------------------------------------------------------------------------
(* Strings *)

s_pip == <<"p", "i", "p">>
s_numpy == <<"n", "u", "m", "p", "y">>
s_flask == <<"f", "l", "a", "s", "k">>
\* upper case and a version: MatchSpec names it pip, is_pip does not
s_Pip9 == <<"P", "i", "p", "=", "9">>
\* pip from a channel
s_cfpip == <<"c", "f", ":", ":", "p", "i", "p">>
\* a package of a channel called pip
s_pipx == <<"p", "i", "p", ":", ":", "x">>

\* depsplit = re.compile(r"[<>~\s=]")
depsplit == {"<", ">", "~", " ", "=", "\t", "\n"}

RECURSIVE FirstIn(_, _, _)
\* the index of the first character of s, from i on, that is in set D; Len(s)+1 if none
FirstIn(s, D, i) ==
    IF i > Len(s) THEN Len(s) + 1
    ELSE IF s[i] \in D THEN i
    ELSE FirstIn(s, D, i + 1)

\* depsplit.split(dep)[0]
SplitHead(s, D) == SubSeq(s, 1, FirstIn(s, D, 1) - 1)
\* what follows it, the delimiter included
SplitTail(s, D) == SubSeq(s, FirstIn(s, D, 1), Len(s))

RECURSIVE FirstColons(_, _)
\* the index of the first "::" of s from i on; 0 if none
FirstColons(s, i) ==
    IF i + 1 > Len(s) THEN 0
    ELSE IF s[i] = ":" /\ s[i + 1] = ":" THEN i
    ELSE FirstColons(s, i + 1)

RECURSIVE SplitColons(_)
\* s.split('::')
SplitColons(s) ==
    LET i == FirstColons(s, 1)
    IN  IF i = 0 THEN <<s>>
        ELSE <<SubSeq(s, 1, i - 1)>> \o SplitColons(SubSeq(s, i + 2, Len(s)))

\* is_pip = lambda dep: 'pip' in depsplit.split(dep)[0].split('::')
is_pip(dep) == s_pip \in Range(SplitColons(SplitHead(dep, depsplit)))

LowerChar(c) ==
    CASE c = "P" -> "p"
      [] c = "N" -> "n"
      [] c = "F" -> "f"
      [] OTHER -> c

lower(s) == [i \in 1..Len(s) |-> LowerChar(s[i])]

\* the characters that end the name of a match specification
SpecDelims == {"<", ">", "~", " ", "=", "!"}

\* MatchSpec(s).name: the lower-cased package name, channel and version dropped
MatchSpecName(s) ==
    LET parts == SplitColons(SplitHead(s, SpecDelims))
    IN  lower(parts[Len(parts)])

\* common.arg2spec(line) = str(MatchSpec(line)): the normalised requirement
arg2spec(line) ==
    LET head == SplitHead(line, SpecDelims)
        nm == MatchSpecName(line)
    IN  SubSeq(head, 1, Len(head) - Len(nm)) \o nm \o SplitTail(line, SpecDelims)

----------------------------------------------------------------------------
(* class Dependencies(OrderedDict)                                         *)
(*                                                                         *)
(* raw is None or a list of str and single-key dict entries; every list   *)
(* holds tagged values.  deps is the                                      *)
(* OrderedDict's items in order, each [key, ref, own]: ref = 0 when the   *)
(* value is a list of its own (own), ref = i when the value IS the list   *)
(* object held by the dict raw[i], as self.update(line) makes it.         *)

HasKey(items, key) == \E i \in 1..Len(items) : items[i].key = key

IndexOf(items, key) == CHOOSE i \in 1..Len(items) : items[i].key = key

\* self[key], read through the reference
Get(r, items, key) ==
    LET e == items[IndexOf(items, key)]
    IN  IF e.ref = 0 THEN e.own ELSE r.v[e.ref].v

\* self[key] = value: an existing key keeps its place, a new one goes last
SetItem(items, key, ref, own) ==
    LET e == [key |-> key, ref |-> ref, own |-> own]
    IN  IF HasKey(items, key)
        THEN [items EXCEPT ![IndexOf(items, key)] = e]
        ELSE Append(items, e)

\* del self[key]
DelItem(items, key) ==
    LET i == IndexOf(items, key)
    IN  SubSeq(items, 1, i - 1) \o SubSeq(items, i + 1, Len(items))

\* self[key].append(x): appends to the list object, wherever it lives
AppendTo(st, key, x) ==
    LET i == IndexOf(st.items, key)
        e == st.items[i]
    IN  IF e.ref = 0
        THEN [st EXCEPT !.items[i].own = Append(@, x)]
        ELSE [st EXCEPT !.raw.v[e.ref].v = Append(@, x)]

RECURSIVE ParseLines(_, _)
\* for line in self.raw: ...
ParseLines(st, i) ==
    IF i > Len(st.raw.v) THEN st
    ELSE LET line == st.raw.v[i]
         IN  IF line.t = "dict"
             THEN ParseLines([st EXCEPT !.items = SetItem(@, line.k, i, <<>>)], i + 1)
             ELSE ParseLines(AppendTo(st, "conda", Str(arg2spec(line.v))), i + 1)

\* if 'pip' in self: ... (two consecutive ifs: the second runs after the del too)
PipRule(st) ==
    IF ~HasKey(st.items, "pip") THEN st
    ELSE LET st1 == IF Get(st.raw, st.items, "pip") = <<>>
                    THEN [st EXCEPT !.items = DelItem(@, "pip")]
                    ELSE st
             conda == Get(st1.raw, st1.items, "conda")
         IN  IF \E j \in 1..Len(conda) : MatchSpecName(conda[j].v) = s_pip
             THEN st1
             ELSE AppendTo(st1, "conda", Str(s_pip))

\* Dependencies.parse, on the pair [raw, items]
parse(st) ==
    IF ~Truthy(st.raw) THEN st
    ELSE PipRule(ParseLines([st EXCEPT !.items = SetItem(@, "conda", 0, <<>>)], 1))

\* Dependencies.__init__(raw): an empty OrderedDict, self.raw = raw, self.parse()
Dependencies(r) == parse([raw |-> r, items |-> <<>>])

\* Dependencies.add(package_name), for a raw that is a list
add(st, package_name) ==
    parse([st EXCEPT !.raw.v = Append(@, Str(package_name))])

\* the categorized view by value: the keys in order, each with its list
View(r, items) ==
    [i \in 1..Len(items) |-> [key |-> items[i].key, val |-> Get(r, items, items[i].key)]]

----------------------------------------------------------------------------
(* class Environment *)

\* Environment.__init__: the fields of self
Environment(nm, fn, ch, dp, pf, vr) ==
    LET d == Dependencies(dp)
    IN  [name |-> nm, filename |-> fn, prefix |-> pf,
         raw |-> d.raw, deps |-> d.items, variables |-> vr,
         channels |-> IF ch = None THEN List(<<>>) ELSE ch]

\* a dict in insertion order: its items are [key, val]
Map(pairs) == [t |-> "map", k |-> "", v |-> pairs]

RECURSIVE uniqueFrom(_, _, _)
\* the loop of unique(seq) with key None: yields the items not yet seen
uniqueFrom(seq, i, seen) ==
    IF i > Len(seq) THEN <<>>
    ELSE IF seq[i] \in seen THEN uniqueFrom(seq, i + 1, seen)
    ELSE <<seq[i]>> \o uniqueFrom(seq, i + 1, seen \cup {seq[i]})

unique(seq) == uniqueFrom(seq, 1, {})

\* new entries last instead of first
add_channels_old_first(self_channels, chs) == List(unique(self_channels.v \o chs.v))

\* Environment.add_channels: list(unique(chain.from_iterable((channels, self.channels))))
add_channels(self_channels, chs) == List(unique(chs.v \o self_channels.v))

\* Environment.remove_channels
remove_channels == List(<<>>)

\* channels emitted whenever it is a list, empty or not
to_dict_channels_always(e) ==
    Map(<<[key |-> "name", val |-> e.name]>>
        \o <<[key |-> "channels", val |-> e.channels]>>
        \o (IF e.deps # <<>> THEN <<[key |-> "dependencies", val |-> e.raw]>> ELSE <<>>)
        \o (IF Truthy(e.variables) THEN <<[key |-> "variables", val |-> e.variables]>> ELSE <<>>)
        \o (IF Truthy(e.prefix) THEN <<[key |-> "prefix", val |-> e.prefix]>> ELSE <<>>))

\* Environment.to_dict(stream=None) of the object e
to_dict(e) ==
    Map(<<[key |-> "name", val |-> e.name]>>
        \o (IF Truthy(e.channels) THEN <<[key |-> "channels", val |-> e.channels]>> ELSE <<>>)
        \o (IF e.deps # <<>> THEN <<[key |-> "dependencies", val |-> e.raw]>> ELSE <<>>)
        \o (IF Truthy(e.variables) THEN <<[key |-> "variables", val |-> e.variables]>> ELSE <<>>)
        \o (IF Truthy(e.prefix) THEN <<[key |-> "prefix", val |-> e.prefix]>> ELSE <<>>))

\* the object becomes the state
Becomes(e) ==
    /\ name' = e.name
    /\ filename' = e.filename
    /\ prefix' = e.prefix
    /\ variables' = e.variables
    /\ channels' = e.channels
    /\ raw' = e.raw
    /\ deps' = e.deps

Self == [name |-> name, filename |-> filename, prefix |-> prefix, raw |-> raw,
         deps |-> deps, variables |-> variables, channels |-> channels]

\* what a loader call gave: status "ok" and the Environment, or the exception
\* raised and its argument
Raised(exc, what) ==
    [status |-> exc, env |-> Environment(None, None, None, None, None, None), what |-> what]
Returned(e) == [status |-> "ok", env |-> e, what |-> None]
NoEnv == Raised("none", None)

----------------------------------------------------------------------------
(* The parts of the state a specification does not use *)

IdleYaml == doc = None /\ yamlstr = None /\ data = None /\ loaded = NoEnv

IdleDir ==
    /\ fs = <<>>
    /\ directory0 = <<>>
    /\ directory = <<>>
    /\ fidx = 0
    /\ pc = "idle"
    /\ tried = <<>>

IdleLive ==
    /\ precs = <<>>
    /\ context_channels = <<>>
    /\ no_builds = FALSE
    /\ ignore_channels = FALSE
    /\ from_history = FALSE
    /\ history = <<>>

IdleCache ==
    /\ cache = <<>>
    /\ tpc = <<>>
    /\ tkind = <<>>
    /\ tparser = <<>>
    /\ created = <<>>
    /\ calls = <<>>

IdleAux ==
    /\ lastOp = "init"
    /\ added = <<>>
    /\ reparsed = 0
    /\ before = [raw |-> None, items |-> <<>>]
    /\ chanBefore = <<>>
    /\ chanArg = <<>>

----------------------------------------------------------------------------
(* Dependencies on its own: Environment(dependencies=raw), add and parse *)

\* the entries of a raw dependency sequence
DepPool ==
    {Str(s_numpy), Str(s_pip), Str(s_Pip9), Str(s_pipx),
     Dict1("pip", <<Str(s_flask)>>), Dict1("pip", <<>>), Dict1("conda", <<Str(s_numpy)>>)}

\* the requirements handed to add
AddPool == {s_numpy, s_pip}

InitDeps ==
    /\ raw0 \in {None} \cup {List(xs) : xs \in SeqsUpTo(DepPool, MaxRaw)}
    /\ \E e \in {Environment(None, None, None, raw0, None, None)} :
           /\ name = e.name
           /\ filename = e.filename
           /\ prefix = e.prefix
           /\ variables = e.variables
           /\ channels = e.channels
           /\ raw = e.raw
           /\ deps = e.deps
    /\ IdleAux /\ IdleYaml /\ IdleDir /\ IdleLive /\ IdleCache

\* self.dependencies.add(package_name): self.raw.append raises on a raw of None
DepAdd(package_name) ==
    /\ Len(added) < MaxAdd
    /\ added' = Append(added, package_name)
    /\ IF raw = None
       THEN /\ lastOp' = "add_raised"
            /\ UNCHANGED <<raw, deps>>
       ELSE /\ lastOp' = "add"
            /\ raw' = add([raw |-> raw, items |-> deps], package_name).raw
            /\ deps' = add([raw |-> raw, items |-> deps], package_name).items
    /\ UNCHANGED <<name, filename, prefix, variables, channels>>
    /\ UNCHANGED <<raw0, reparsed, before, chanBefore, chanArg>>
    /\ doc' = None
    /\ UNCHANGED <<yamlstr, data, loaded, varsDir, varsLive, varsCache>>

\* self.dependencies.parse() called again
DepParse ==
    /\ reparsed < MaxParse
    /\ reparsed' = reparsed + 1
    /\ lastOp' = "parse"
    /\ before' = [raw |-> raw, items |-> deps]
    /\ raw' = parse([raw |-> raw, items |-> deps]).raw
    /\ deps' = parse([raw |-> raw, items |-> deps]).items
    /\ UNCHANGED <<name, filename, prefix, variables, channels>>
    /\ UNCHANGED <<raw0, added, chanBefore, chanArg>>
    /\ doc' = None
    /\ UNCHANGED <<yamlstr, data, loaded, varsDir, varsLive, varsCache>>

NextDeps ==
    \/ \E p \in AddPool : DepAdd(p)
    \/ DepParse

SpecDeps == InitDeps /\ [][NextDeps]_vars

----------------------------------------------------------------------------------------------------------------------------------------
(* The channel list: Environment(channels=...), add_channels, remove_channels *)

\* longest channel list given to the constructor or to add_channels
MaxChan == 2

c_x == Str(<<"x">>)
c_y == Str(<<"y">>)
c_z == Str(<<"z">>)
ChanPool == {c_x, c_y, c_z}

ChanLists == {List(xs) : xs \in SeqsUpTo(ChanPool, MaxChan)}

InitChan ==
    /\ raw0 = None
    /\ \E ch \in {None} \cup ChanLists :
         \E e \in {Environment(None, None, ch, raw0, None, None)} :
           /\ name = e.name
           /\ filename = e.filename
           /\ prefix = e.prefix
           /\ variables = e.variables
           /\ channels = e.channels
           /\ raw = e.raw
           /\ deps = e.deps
    /\ IdleAux /\ IdleYaml /\ IdleDir /\ IdleLive /\ IdleCache

\* self.add_channels(chs)
AddChannels(chs) ==
    /\ lastOp' = "add_channels"
    /\ chanBefore' = channels.v
    /\ chanArg' = chs.v
    /\ channels' = add_channels(channels, chs)
    /\ doc' = None
    /\ UNCHANGED <<name, filename, prefix, variables, raw, deps>>
    /\ UNCHANGED <<raw0, added, reparsed, before>>
    /\ UNCHANGED <<yamlstr, data, loaded, varsDir, varsLive, varsCache>>

\* self.remove_channels()
RemoveChannels ==
    /\ lastOp' = "remove_channels"
    /\ channels' = remove_channels
    /\ doc' = None
    /\ UNCHANGED <<name, filename, prefix, variables, raw, deps>>
    /\ UNCHANGED <<raw0, added, reparsed, before, chanBefore, chanArg>>
    /\ UNCHANGED <<yamlstr, data, loaded, varsDir, varsLive, varsCache>>

NextChan ==
    \/ \E chs \in ChanLists : AddChannels(chs)
    \/ RemoveChannels

SpecChan == InitChan /\ [][NextChan]_vars

----------------------------------------------------------------------------
(* An Environment built directly with any of its arguments given, empty   *)
(* or omitted, then add_channels, remove_channels, dependencies.add and   *)
(* to_dict                                                                *)

\* longest raw dependency sequence given to Environment(...)
EnvMaxRaw == 1

NamePool == {None, Str(<<"e">>)}
VariablesPool == {None, Map(<<>>), Map(<<[key |-> "A", val |-> Str(<<"b">>)]>>)}
PrefixPool == {None, Str(<<>>), Str(<<"/", "p">>)}
EnvDepPool == {Str(s_numpy), Dict1("pip", <<>>), Dict1("pip", <<Str(s_flask)>>)}
EnvChanPool == {None, List(<<>>), List(<<c_x>>)}
EnvChanArgs == {List(<<>>), List(<<c_x>>), List(<<c_y, c_x>>)}
EnvAddPool == {s_numpy}

InitEnv ==
    /\ raw0 \in {None} \cup {List(xs) : xs \in SeqsUpTo(EnvDepPool, EnvMaxRaw)}
    /\ \E nm \in NamePool, vr \in VariablesPool, pf \in PrefixPool, ch \in EnvChanPool :
         \E e \in {Environment(nm, None, ch, raw0, pf, vr)} :
           /\ name = e.name
           /\ filename = e.filename
           /\ prefix = e.prefix
           /\ variables = e.variables
           /\ channels = e.channels
           /\ raw = e.raw
           /\ deps = e.deps
    /\ IdleAux /\ IdleYaml /\ IdleDir /\ IdleLive /\ IdleCache

\* d = self.to_dict()
ToDict ==
    /\ lastOp' = "to_dict"
    /\ doc' = to_dict(Self)
    /\ UNCHANGED <<varsEnv, raw0, added, reparsed, before, chanBefore, chanArg>>
    /\ UNCHANGED <<yamlstr, data, loaded, varsDir, varsLive, varsCache>>

NextEnv ==
    \/ \E chs \in EnvChanArgs : AddChannels(chs)
    \/ RemoveChannels
    \/ \E p \in EnvAddPool : DepAdd(p)
    \/ ToDict

SpecEnv == InitEnv /\ [][NextEnv]_vars

----------------------------------------------------------------------------
(* yaml_safe_dump and yaml_safe_load.  The text is modelled as the node    *)
(* tree it spells: scalars with their text and style, block or flow       *)
(* sequences and mappings.  A plain scalar is resolved by its text when   *)
(* it is read, so the writer quotes a str that would not read as a str.   *)

s_null == <<"n", "u", "l", "l">>

\* the plain scalars that read as null
NullForms == {s_null, <<"~">>, <<>>, <<"N", "u", "l", "l">>, <<"N", "U", "L", "L">>}

Scalar(style, text) == [kind |-> "scalar", style |-> style, text |-> text, under |-> <<>>]
SeqNode(nodes) ==
    [kind |-> "seq", style |-> IF nodes = <<>> THEN "flow" ELSE "block",
     text |-> <<>>, under |-> nodes]
\* under: the [key, node] pairs in order
MapNode(pairs) ==
    [kind |-> "map", style |-> IF pairs = <<>> THEN "flow" ELSE "block",
     text |-> <<>>, under |-> pairs]

\* the text of an empty file
EmptyText == Scalar("plain", <<>>)

RECURSIVE represent(_)
\* _yaml_safe().dump(object): None, str, list, dict and odict as nodes
represent(x) ==
    CASE x.t = "none" -> Scalar("plain", s_null)
      [] x.t = "str" -> Scalar(IF x.v \in NullForms THEN "quoted" ELSE "plain", x.v)
      [] x.t = "list" -> SeqNode([i \in 1..Len(x.v) |-> represent(x.v[i])])
      [] x.t = "dict" -> MapNode(<<[key |-> x.k, node |-> represent(List(x.v))]>>)
      [] x.t = "map" ->
            MapNode([i \in 1..Len(x.v) |->
                        [key |-> x.v[i].key, node |-> represent(x.v[i].val)]])

yaml_safe_dump(object) == represent(object)

RECURSIVE construct(_)
\* _yaml_safe().load(string)
construct(n) ==
    CASE n.kind = "scalar" ->
            IF n.style = "plain" /\ n.text \in NullForms THEN None ELSE Str(n.text)
      [] n.kind = "seq" -> List([i \in 1..Len(n.under) |-> construct(n.under[i])])
      [] n.kind = "map" ->
            Map([i \in 1..Len(n.under) |->
                    [key |-> n.under[i].key, val |-> construct(n.under[i].node)]])

yaml_safe_load(string) == construct(string)

\* Environment.to_yaml(stream=None)
to_yaml(e) == yaml_safe_dump(to_dict(e))

----------------------------------------------------------------------------
(* The loader: validate_keys and from_yaml *)

VALID_KEYS == {"name", "dependencies", "prefix", "channels", "variables"}

InDict(d, key) == \E i \in 1..Len(d.v) : d.v[i].key = key

\* d.get(key, default)
DictGet(d, key, default) ==
    IF InDict(d, key) THEN d.v[CHOOSE i \in 1..Len(d.v) : d.v[i].key = key].val
    ELSE default

\* d[key] = value
DictSet(d, key, value) ==
    IF InDict(d, key)
    THEN [d EXCEPT !.v[CHOOSE i \in 1..Len(d.v) : d.v[i].key = key].val = value]
    ELSE [d EXCEPT !.v = Append(@, [key |-> key, val |-> value])]

\* isinstance(dep, dict)
IsDict(dep) == dep.t \in {"map", "dict"}

\* 'pip' in dep, for a dict
HasPipKey(dep) == IF dep.t = "dict" THEN dep.k = "pip" ELSE InDict(dep, "pip")

\* lists_pip = any(is_pip(_) for _ in deps if not isinstance(_, dict))
lists_pip(depl) == \E i \in 1..Len(depl.v) : ~IsDict(depl.v[i]) /\ is_pip(depl.v[i].v)

\* the pip-installed dependencies are there and pip is not listed
MissesPip(depl) ==
    /\ \E i \in 1..Len(depl.v) : IsDict(depl.v[i]) /\ HasPipKey(depl.v[i])
    /\ ~lists_pip(depl)

\* the known keys kept, nothing inserted
validate_keys_no_insert(d) ==
    [d EXCEPT !.v = SelectSeq(@, LAMBDA kv : kv.key \in VALID_KEYS)]

\* the known keys kept, 'pip' put last
validate_keys_append(d) ==
    LET new_data == [d EXCEPT !.v = SelectSeq(@, LAMBDA kv : kv.key \in VALID_KEYS)]
        depl == DictGet(d, "dependencies", List(<<>>))
    IN  IF MissesPip(depl)
        THEN DictSet(new_data, "dependencies", List(Append(depl.v, Str(s_pip))))
        ELSE new_data

\* validate_keys(data, kwargs): the unknown keys dropped, 'pip' inserted first
validate_keys(d) ==
    LET new_data == [d EXCEPT !.v = SelectSeq(@, LAMBDA kv : kv.key \in VALID_KEYS)]
        depl == DictGet(d, "dependencies", List(<<>>))
    IN  IF MissesPip(depl)
        THEN DictSet(new_data, "dependencies", List(<<Str(s_pip)>> \o depl.v))
        ELSE new_data

\* a loaded single-key mapping as the dict entry of raw it is
AsEntry(x) == IF x.t = "map" THEN Dict1(x.v[1].key, x.v[1].val.v) ELSE x

AsRaw(depl) ==
    IF depl.t = "list" THEN List([i \in 1..Len(depl.v) |-> AsEntry(depl.v[i])]) ELSE depl

\* Environment(**data)
EnvironmentOf(d) ==
    Environment(DictGet(d, "name", None), DictGet(d, "filename", None),
                DictGet(d, "channels", None), AsRaw(DictGet(d, "dependencies", None)),
                DictGet(d, "prefix", None), DictGet(d, "variables", None))

RECURSIVE Merge(_, _, _)
\* for key, value in kwargs.items(): data[key] = value
Merge(d, kwargs, i) ==
    IF i > Len(kwargs.v) THEN d
    ELSE Merge(DictSet(d, kwargs.v[i].key, kwargs.v[i].val), kwargs, i + 1)

\* from_yaml(yamlstr, **kwargs): the Environment, or the exception raised
from_yaml(string, kwargs) ==
    IF yaml_safe_load(string) = None
    THEN Raised("EnvironmentFileEmpty", DictGet(kwargs, "filename", None))
    ELSE Returned(EnvironmentOf(Merge(validate_keys(yaml_safe_load(string)), kwargs, 1)))

----------------------------------------------------------------------------
(* An Environment built directly, written with to_yaml and read back      *)

\* longest raw dependency sequence given to Environment(...)
YamlMaxRaw == 2

YamlNamePool == {None, Str(<<"e">>), Str(s_null)}
YamlChanPool == {None, List(<<c_y, c_x>>)}
YamlDepPool ==
    {Str(s_numpy), Str(s_cfpip), Str(s_Pip9), Str(s_pipx),
     Dict1("pip", <<Str(s_flask)>>), Dict1("pip", <<>>), Dict1("conda", <<Str(s_numpy)>>)}
KwargsPool == {Map(<<>>), Map(<<[key |-> "filename", val |-> Str(<<"f">>)]>>)}

InitYaml ==
    /\ raw0 \in {None} \cup {List(xs) : xs \in SeqsUpTo(YamlDepPool, YamlMaxRaw)}
    /\ \E nm \in YamlNamePool, vr \in VariablesPool, pf \in PrefixPool, ch \in YamlChanPool :
         \E e \in {Environment(nm, None, ch, raw0, pf, vr)} :
           /\ name = e.name
           /\ filename = e.filename
           /\ prefix = e.prefix
           /\ variables = e.variables
           /\ channels = e.channels
           /\ raw = e.raw
           /\ deps = e.deps
    /\ IdleAux /\ IdleYaml /\ IdleDir /\ IdleLive /\ IdleCache

\* yamlstr = self.to_yaml()
ToYaml ==
    /\ lastOp' = "to_yaml"
    /\ doc' = None
    /\ yamlstr' = to_yaml(Self)
    /\ UNCHANGED <<varsEnv, raw0, added, reparsed, before, chanBefore, chanArg>>
    /\ UNCHANGED <<data, loaded, varsDir, varsLive, varsCache>>

\* loaded = from_yaml(string, **kwargs), of the text written or of an empty text
FromYaml(string, kwargs) ==
    /\ string # None
    /\ lastOp' = "from_yaml"
    /\ data' = yaml_safe_load(string)
    /\ loaded' = from_yaml(string, kwargs)
    /\ UNCHANGED <<varsEnv, raw0, added, reparsed, before, chanBefore, chanArg>>
    /\ UNCHANGED <<doc, yamlstr, varsDir, varsLive, varsCache>>

NextYaml ==
    \/ ToYaml
    \/ \E kwargs \in KwargsPool : FromYaml(yamlstr, kwargs)
    \/ \E kwargs \in KwargsPool : FromYaml(EmptyText, kwargs)

SpecYaml == InitYaml /\ [][NextYaml]_vars

----------------------------------------------------------------------------
(* load_from_directory and from_file.  A path is the sequence of its       *)
(* components from the root, <<>> being the root itself; fs gives each     *)
(* candidate file its text, or None when there is no such file.            *)

\* depth of the deepest directory
MaxDepth == 2

Chain == <<"a", "b", "c", "d", "e", "f">>

Dirs == {SubSeq(Chain, 1, d) : d \in 0..MaxDepth}

files_swapped == <<"environment.yaml", "environment.yml">>

\* files = ['environment.yml', 'environment.yaml']
files == <<"environment.yml", "environment.yaml">>

\* os.path.join(directory, f)
join(dir, f) == Append(dir, f)

\* os.path.dirname(directory); the root is its own parent
dirname(dir) == IF dir = <<>> THEN <<>> ELSE SubSeq(dir, 1, Len(dir) - 1)

\* the text of a well-formed environment file
SampleText == to_yaml(Environment(Str(<<"e">>), None, None, List(<<Str(s_numpy)>>), None, None))

FilePaths == {join(d, f) : d \in Dirs, f \in {"environment.yml", "environment.yaml"}}

\* from_file(filename) of a local path: EnvironmentFileNotFound when it does
\* not exist, else from_yaml(yamlstr, filename=filename)
from_file(fname) ==
    IF fs[fname] = None
    THEN Raised("EnvironmentFileNotFound", Str(fname))
    ELSE from_yaml(fs[fname], Map(<<[key |-> "filename", val |-> Str(fname)]>>))

InitDir ==
    /\ fs \in [FilePaths -> {None, EmptyText, SampleText}]
    /\ directory0 \in Dirs
    /\ directory = directory0
    /\ fidx = 1
    /\ pc = "try"
    /\ tried = <<>>
    /\ raw0 = None
    /\ \E e \in {Environment(None, None, None, None, None, None)} :
           /\ name = e.name
           /\ filename = e.filename
           /\ prefix = e.prefix
           /\ variables = e.variables
           /\ channels = e.channels
           /\ raw = e.raw
           /\ deps = e.deps
    /\ IdleAux /\ IdleYaml /\ IdleLive /\ IdleCache

\* one pass of the body of `for f in files` in load_from_directory, with what
\* follows the loop when f is the last file
TryFile ==
    /\ pc = "try"
    /\ tried' = Append(tried, join(directory, files[fidx]))
    /\ LET r == from_file(join(directory, files[fidx]))
       IN  IF r.status = "EnvironmentFileNotFound"
           THEN \* except EnvironmentFileNotFound: pass
                IF fidx < Len(files)
                THEN /\ fidx' = fidx + 1
                     /\ UNCHANGED <<directory, pc, loaded>>
                ELSE IF dirname(directory) = directory
                     THEN \* break; raise EnvironmentFileNotFound(files[0])
                          /\ pc' = "raised"
                          /\ loaded' = Raised("EnvironmentFileNotFound", Str(<<files[1]>>))
                          /\ UNCHANGED <<directory, fidx>>
                     ELSE /\ directory' = dirname(directory)
                          /\ fidx' = 1
                          /\ UNCHANGED <<pc, loaded>>
           ELSE \* return from_file(...), or its other exception leaves the function
                /\ pc' = IF r.status = "ok" THEN "returned" ELSE "raised"
                /\ loaded' = r
                /\ UNCHANGED <<directory, fidx>>
    /\ lastOp' = "load_from_directory"
    /\ UNCHANGED <<varsEnv, raw0, added, reparsed, before, chanBefore, chanArg>>
    /\ UNCHANGED <<fs, directory0, doc, yamlstr, data, varsLive, varsCache>>

NextDir == TryFile

\* what every pass of TryFile does, whatever the file holds
TryStep == pc = "try" /\ tried' = Append(tried, join(directory, files[fidx]))

\* the call runs on, nothing else is scheduled: while the loop is not left,
\* its next pass is taken
SpecDir == InitDir /\ [][NextDir]_vars /\ WF_tried(TryStep)

----------------------------------------------------------------------------
(* from_environment.  precs is the tuple of installed records in the order *)
(* of the prefix graph, each [name, version, build, package_type, channel] *)
(* with channel the canonical name; context_channels is context.channels;  *)
(* history is the requested specs of the History, as str.                  *)

\* most installed records
MaxPrecs == 2

\* the characters of package names, in code point order
Alphabet == <<"a", "b", "c">>

Ord(c) == CHOOSE i \in 1..Len(Alphabet) : Alphabet[i] = c

RECURSIVE StrLess(_, _)
\* a < b for str
StrLess(a, b) ==
    IF b = <<>> THEN FALSE
    ELSE IF a = <<>> THEN TRUE
    ELSE IF a[1] # b[1] THEN Ord(a[1]) < Ord(b[1])
    ELSE StrLess(Tail(a), Tail(b))

RECURSIVE InsertByName(_, _)
\* x put after the records whose name is not greater than its own
InsertByName(x, s) ==
    IF s = <<>> THEN <<x>>
    ELSE IF StrLess(x.name, s[1].name) THEN <<x>> \o s
    ELSE <<s[1]>> \o InsertByName(x, Tail(s))

RECURSIVE sorted(_)
\* sorted(recs, key=lambda x: x.name): stable
sorted(recs) ==
    IF recs = <<>> THEN <<>>
    ELSE InsertByName(recs[Len(recs)], sorted(SubSeq(recs, 1, Len(recs) - 1)))

\* grouped_precs.get(package_type, ())
Group(recs, package_type) == SelectSeq(recs, LAMBDA x : x.package_type = package_type)

\* the records as they come, not sorted
conda_precs_unsorted(recs) ==
    Group(recs, "None") \o Group(recs, "NOARCH_GENERIC") \o Group(recs, "NOARCH_PYTHON")

conda_precs(recs) ==
    sorted(Group(recs, "None") \o Group(recs, "NOARCH_GENERIC")
               \o Group(recs, "NOARCH_PYTHON"))

pip_precs(recs) ==
    sorted(Group(recs, "VIRTUAL_PYTHON_WHEEL") \o Group(recs, "VIRTUAL_PYTHON_EGG_MANAGEABLE")
               \o Group(recs, "VIRTUAL_PYTHON_EGG_UNMANAGEABLE"))

\* '='.join((a.name, a.version)) or '='.join((a.name, a.version, a.build))
RenderConda(a, nb) ==
    IF nb THEN a.name \o <<"=">> \o a.version
    ELSE a.name \o <<"=">> \o a.version \o <<"=">> \o a.build

\* "%s==%s" % (a.name, a.version)
RenderPip(a) == a.name \o <<"=", "=">> \o a.version

\* the dependencies list of from_environment
dependencies(recs, nb) ==
    LET cp == conda_precs(recs)
        pp == pip_precs(recs)
    IN  [i \in 1..Len(cp) |-> Str(RenderConda(cp[i], nb))]
            \o (IF pp # <<>>
                THEN <<Dict1("pip", [i \in 1..Len(pp) |-> Str(RenderPip(pp[i]))])>>
                ELSE <<>>)

RECURSIVE InsertChannels_append(_, _, _)
\* for prec in conda_precs: ... channels.append(canonical_name)
InsertChannels_append(chs, cp, i) ==
    IF i > Len(cp) THEN chs
    ELSE IF cp[i].channel \in Range(chs) THEN InsertChannels_append(chs, cp, i + 1)
    ELSE InsertChannels_append(Append(chs, cp[i].channel), cp, i + 1)

RECURSIVE InsertChannels(_, _, _)

\* for prec in conda_precs: ... channels.insert(0, canonical_name)
InsertChannels(chs, cp, i) ==
    IF i > Len(cp) THEN chs
    ELSE IF cp[i].channel \in Range(chs) THEN InsertChannels(chs, cp, i + 1)
    ELSE InsertChannels(<<cp[i].channel>> \o chs, cp, i + 1)

\* from_environment(name, prefix, no_builds, ignore_channels, from_history)
from_environment(nm, pf, nb, ic, fh, vr) ==
    IF fh
    THEN Environment(nm, None, List(context_channels),
                     List([i \in 1..Len(history) |-> Str(history[i])]), pf, vr)
    ELSE Environment(nm, None,
                     List(IF ic THEN context_channels
                          ELSE InsertChannels(context_channels, conda_precs(precs), 1)),
                     List(dependencies(precs, nb)), pf, vr)

PackageTypes ==
    {"None", "NOARCH_GENERIC", "NOARCH_PYTHON", "VIRTUAL_PYTHON_WHEEL",
     "VIRTUAL_PYTHON_EGG_MANAGEABLE", "VIRTUAL_PYTHON_EGG_UNMANAGEABLE",
     "SHADOW_PYTHON_EGG_LINK"}

PrecNames == {<<"a">>, <<"a", "b">>, <<"b">>}

\* the records a prefix may hold: the name decides version and build
PrecPool ==
    {[name |-> n, version |-> IF n = <<"a">> THEN <<"1">> ELSE <<"2">>,
      build |-> IF n = <<"a">> THEN <<"0">> ELSE <<"1">>,
      package_type |-> t, channel |-> c] :
        n \in PrecNames, t \in PackageTypes, c \in {c_x, c_z}}

\* no two records of a prefix have the same name
DistinctNames(recs) == \A i, j \in 1..Len(recs) : recs[i].name = recs[j].name => i = j

InitLive ==
    /\ from_history \in BOOLEAN
    /\ no_builds \in BOOLEAN
    /\ ignore_channels \in BOOLEAN
    /\ context_channels \in {<<>>, <<c_y, c_x>>}
    /\ IF from_history
       THEN precs = <<>> /\ history \in SeqsUpTo({s_numpy, s_pip}, 2)
       ELSE history = <<>> /\ precs \in {r \in SeqsUpTo(PrecPool, MaxPrecs) : DistinctNames(r)}
    /\ raw0 = None
    /\ \E e \in {Environment(None, None, None, None, None, None)} :
           /\ name = e.name
           /\ filename = e.filename
           /\ prefix = e.prefix
           /\ variables = e.variables
           /\ channels = e.channels
           /\ raw = e.raw
           /\ deps = e.deps
    /\ IdleAux /\ IdleYaml /\ IdleDir /\ IdleCache

\* env = from_environment(name, prefix, no_builds, ignore_channels, from_history)
FromEnvironment ==
    /\ lastOp = "init"
    /\ lastOp' = "from_environment"
    /\ Becomes(from_environment(Str(<<"e">>), Str(<<"/", "p">>), no_builds,
                                ignore_channels, from_history, None))
    /\ UNCHANGED <<raw0, added, reparsed, before, chanBefore, chanArg>>
    /\ UNCHANGED <<varsYaml, varsDir, varsLive, varsCache>>

NextLive == FromEnvironment

SpecLive == InitLive /\ [][NextLive]_vars

----------------------------------------------------------------------------
(* Claims about Dependencies *)

\* the plain entries of a raw sequence, normalised, in their order
PlainNorm(r) ==
    LET plain == SelectSeq(r.v, LAMBDA e : e.t = "str")
    IN  [i \in 1..Len(plain) |-> Str(arg2spec(plain[i].v))]

\* the index of the last entry of raw that is a dict with this key; 0 if none
LastKeyed(r, key) ==
    IF \E i \in 1..Len(r.v) : r.v[i].t = "dict" /\ r.v[i].k = key
    THEN CHOOSE i \in 1..Len(r.v) :
             /\ r.v[i].t = "dict" /\ r.v[i].k = key
             /\ \A j \in (i + 1)..Len(r.v) : ~(r.v[j].t = "dict" /\ r.v[j].k = key)
    ELSE 0

NamesPip(xs) == \E j \in 1..Len(xs) : MatchSpecName(xs[j].v) = s_pip

\* C7: after parsing a non-empty raw (with no mapping keyed 'conda'): an empty
\* 'pip' category is dropped and the 'conda' sequence is exactly the normalised
\* plain entries, with no sentinel; a non-empty 'pip' category appends 'pip' to
\* 'conda' exactly when no requirement there is named pip; without a 'pip'
\* category nothing is appended.
C7_SentinelRule ==
    (Truthy(raw) /\ LastKeyed(raw, "conda") = 0) =>
        LET p == LastKeyed(raw, "pip")
            conda == Get(raw, deps, "conda")
        IN  IF p = 0 THEN conda = PlainNorm(raw)
            ELSE IF raw.v[p].v = <<>>
                 THEN ~HasKey(deps, "pip") /\ conda = PlainNorm(raw)
                 ELSE /\ HasKey(deps, "pip")
                      /\ Get(raw, deps, "pip") = raw.v[p].v
                      /\ conda = IF NamesPip(PlainNorm(raw))
                                 THEN PlainNorm(raw)
                                 ELSE Append(PlainNorm(raw), Str(s_pip))

\* C8: raw is the single source of truth: raw is the raw given at construction
\* followed by the added strings in call order, the categorized view is the one
\* a fresh Dependencies derives from that raw, and a further parse() changes
\* neither raw nor the view.
C8_RawIsTruth ==
    raw # None =>
        /\ raw = List(raw0.v \o [i \in 1..Len(added) |-> Str(added[i])])
        /\ View(raw, deps) = View(Dependencies(raw).raw, Dependencies(raw).items)
        /\ lastOp = "parse" =>
               /\ raw = before.raw
               /\ View(raw, deps) = View(before.raw, before.items)

----------------------------------------------------------------------------
(* Claims about the Environment object *)

DocKeys(d) == {d.v[i].key : i \in 1..Len(d.v)}

\* C3 as stated: the mapping returned by to_dict() holds no key whose value is
\* empty or absent (None, empty list, empty mapping, empty string).
C3_Minimal ==
    lastOp = "to_dict" => \A i \in 1..Len(doc.v) : Truthy(doc.v[i].val)

\* C3 as amended: the mapping returned by to_dict() always holds 'name' (None
\* when no name was given) and holds no other key whose value is empty or absent.
C3_MinimalButName ==
    lastOp = "to_dict" =>
        /\ doc.v[1] = [key |-> "name", val |-> name]
        /\ \A i \in 2..Len(doc.v) : doc.v[i].key # "name" /\ Truthy(doc.v[i].val)

\* an Environment with empty variables and prefix, whose channels were added
\* and removed again and whose dependencies were added to, serialised
C3_Witness ==
    /\ lastOp = "to_dict"
    /\ variables = Map(<<>>) /\ prefix = Str(<<>>)
    /\ chanArg # <<>> /\ channels = List(<<>>)
    /\ Len(added) > 0 /\ raw # None
    /\ DocKeys(doc) = {"name", "dependencies"}

RECURSIVE FirstOccurrences(_)
\* s with every element that occurred earlier in s removed
FirstOccurrences(s) ==
    IF s = <<>> THEN <<>>
    ELSE LET front == SubSeq(s, 1, Len(s) - 1)
         IN  IF s[Len(s)] \in Range(front)
             THEN FirstOccurrences(front)
             ELSE Append(FirstOccurrences(front), s[Len(s)])

\* C4: after add_channels(new) on the channel list old, the channel list is
\* new ++ old with every element that occurred earlier removed: no duplicates,
\* and exactly the elements of new and old.
C4_ChannelDedupOrder ==
    lastOp = "add_channels" =>
        /\ channels.v = FirstOccurrences(chanArg \o chanBefore)
        /\ \A i, j \in 1..Len(channels.v) : channels.v[i] = channels.v[j] => i = j
        /\ Range(channels.v) = Range(chanArg) \cup Range(chanBefore)

\* add_channels([x, y]) on [y, z] gave [x, y, z]
C4_Witness ==
    /\ lastOp = "add_channels"
    /\ chanArg = <<c_x, c_y>> /\ chanBefore = <<c_y, c_z>>
    /\ channels = List(<<c_x, c_y, c_z>>)

----------------------------------------------------------------------------
(* Claims about the loader *)

\* an empty or absent value, as it is read back
ReadBack(x) == IF Truthy(x) THEN x ELSE None

\* C1 as stated, for an Environment whose name, channels, dependencies,
\* variables and prefix are all given and not empty and whose raw holds no
\* mapping keyed 'conda': from_yaml(E.to_yaml()) has the name, channels,
\* dependencies.raw, variables and prefix of E.
C1_RoundTrip ==
    (/\ lastOp = "from_yaml" /\ loaded.status = "ok"
     /\ Truthy(name) /\ Truthy(channels) /\ Truthy(raw)
     /\ Truthy(variables) /\ Truthy(prefix)
     /\ LastKeyed(raw, "conda") = 0) =>
        /\ loaded.env.name = name
        /\ loaded.env.channels = channels
        /\ loaded.env.raw = raw
        /\ loaded.env.variables = variables
        /\ loaded.env.prefix = prefix

\* the raw that is read back: None for an empty raw, else raw with 'pip' put
\* first when raw holds a {pip: ...} mapping and no plain entry that is_pip
\* recognises
PipListed(r) ==
    IF ~Truthy(r) THEN None
    ELSE IF /\ LastKeyed(r, "pip") # 0
            /\ \A i \in 1..Len(r.v) : r.v[i].t = "str" => ~is_pip(r.v[i].v)
         THEN List(<<Str(s_pip)>> \o r.v)
         ELSE r

\* C1 as amended: from_yaml(E.to_yaml()) has the name and the channels of E; its
\* variables and prefix are those of E, an empty one read back as None; its
\* dependencies.raw is the raw of an Environment built directly from E's raw
\* with 'pip' inserted as the first entry when raw holds a {pip: ...} mapping
\* and no plain entry that is_pip recognises (None for an empty raw), and that
\* is this very sequence when raw holds no mapping keyed 'conda'.
C1_RoundTripButPip ==
    (lastOp = "from_yaml" /\ loaded.status = "ok") =>
        /\ loaded.env.name = name
        /\ loaded.env.channels = channels
        /\ loaded.env.variables = ReadBack(variables)
        /\ loaded.env.prefix = ReadBack(prefix)
        /\ loaded.env.raw = Dependencies(PipListed(raw)).raw
        /\ LastKeyed(raw, "conda") = 0 => loaded.env.raw = PipListed(raw)

\* [numpy, {pip: [flask]}] with every other field given was written and read
\* back with 'pip' in front
C1_Witness ==
    /\ lastOp = "from_yaml" /\ loaded.status = "ok"
    /\ name = Str(s_null) /\ Truthy(variables) /\ Truthy(prefix) /\ Truthy(channels)
    /\ raw = List(<<Str(s_numpy), Dict1("pip", <<Str(s_flask)>>)>>)
    /\ loaded.env.raw = List(<<Str(s_pip), Str(s_numpy), Dict1("pip", <<Str(s_flask)>>)>>)

\* the dependencies of the document read are plain requirements followed by one
\* mapping {pip: [non-empty list]}
PlainThenPip(depl) ==
    /\ depl.t = "list" /\ Len(depl.v) >= 1
    /\ \A i \in 1..(Len(depl.v) - 1) : depl.v[i].t = "str"
    /\ IsDict(depl.v[Len(depl.v)]) /\ HasPipKey(depl.v[Len(depl.v)])
    /\ AsEntry(depl.v[Len(depl.v)]).v # <<>>

DocDeps == DictGet(data, "dependencies", None)

\* C2 as stated: for a document whose dependencies are plain requirements none
\* of which names pip (neither for is_pip nor by its MatchSpec name), followed
\* by {pip: [non-empty list]}, from_yaml yields 'conda' = the plain requirements
\* in their order then 'pip' last, and 'pip' = the mapping's list.
C2_PipLast ==
    (/\ lastOp = "from_yaml" /\ loaded.status = "ok"
     /\ PlainThenPip(DocDeps)
     /\ \A i \in 1..(Len(DocDeps.v) - 1) :
            ~is_pip(DocDeps.v[i].v) /\ MatchSpecName(DocDeps.v[i].v) # s_pip) =>
        /\ Get(loaded.env.raw, loaded.env.deps, "conda")
              = Append(PlainNorm(AsRaw(DocDeps)), Str(s_pip))
        /\ Get(loaded.env.raw, loaded.env.deps, "pip")
              = AsEntry(DocDeps.v[Len(DocDeps.v)]).v

\* C2 as amended: for a document whose dependencies are plain requirements none
\* of which is_pip recognises as pip, followed by {pip: [non-empty list]},
\* from_yaml yields 'conda' = 'pip' first, then the (normalised) plain
\* requirements in their order, and 'pip' = the mapping's list.
C2_PipFirst ==
    (/\ lastOp = "from_yaml" /\ loaded.status = "ok"
     /\ PlainThenPip(DocDeps)
     /\ \A i \in 1..(Len(DocDeps.v) - 1) : ~is_pip(DocDeps.v[i].v)) =>
        /\ Get(loaded.env.raw, loaded.env.deps, "conda")
              = <<Str(s_pip)>> \o PlainNorm(AsRaw(DocDeps))
        /\ Get(loaded.env.raw, loaded.env.deps, "pip")
              = AsEntry(DocDeps.v[Len(DocDeps.v)]).v

\* the document [numpy, {pip: [flask]}] was read: conda = [pip, numpy], pip = [flask]
C2_Witness ==
    /\ lastOp = "from_yaml" /\ loaded.status = "ok"
    /\ AsRaw(DocDeps) = List(<<Str(s_numpy), Dict1("pip", <<Str(s_flask)>>)>>)
    /\ View(loaded.env.raw, loaded.env.deps)
         = <<[key |-> "conda", val |-> <<Str(s_pip), Str(s_numpy)>>],
             [key |-> "pip", val |-> <<Str(s_flask)>>]>>

----------------------------------------------------------------------------
(* Claims about load_from_directory *)

RECURSIVE Candidates(_)
\* dir/environment.yml, dir/environment.yaml, then the same in each ancestor
Candidates(dir) ==
    <<Append(dir, "environment.yml"), Append(dir, "environment.yaml")>>
        \o (IF dir = <<>> THEN <<>> ELSE Candidates(SubSeq(dir, 1, Len(dir) - 1)))

Exists(c) == fs[c] # None
Loads(c) == Exists(c) /\ from_yaml(fs[c], Map(<<>>)).status = "ok"

Done == pc \in {"returned", "raised"}

Least(S) == CHOOSE i \in S : \A j \in S : i <= j

\* C5 as stated: the search returns the Environment of the first candidate, in
\* the order above, that loads successfully, and raises (EnvironmentFileNotFound
\* naming environment.yml) only when no candidate does.
C5_FirstSuccess ==
    Done =>
        LET cs == Candidates(directory0)
            good == {i \in 1..Len(cs) : Loads(cs[i])}
        IN  IF good # {}
            THEN pc = "returned" /\ loaded.env.filename = Str(cs[Least(good)])
            ELSE pc = "raised"

C5_FirstExisting ==
    LET cs == Candidates(directory0)
        there == {i \in 1..Len(cs) : Exists(cs[i])}
    IN  /\ \E k \in 0..Len(cs) : tried = SubSeq(cs, 1, k)
        /\ Done =>
             IF there = {}
             THEN /\ tried = cs
                  /\ pc = "raised"
                  /\ loaded.status = "EnvironmentFileNotFound"
                  /\ loaded.what = Str(<<"environment.yml">>)
             ELSE /\ tried = SubSeq(cs, 1, Least(there))
                  /\ IF Loads(cs[Least(there)])
                     THEN /\ pc = "returned"
                          /\ loaded.status = "ok"
                          /\ loaded.env.filename = Str(cs[Least(there)])
                          /\ loaded.env.name = Str(<<"e">>)
                     ELSE /\ pc = "raised"
                          /\ loaded.status = "EnvironmentFileEmpty"
                          /\ loaded.what = Str(cs[Least(there)])

\* C5 as amended: the candidates are tried in the order dir/environment.yml,
\* dir/environment.yaml, then the same in the parent, ... up to the root; the
\* search stops at the first candidate that exists and returns the Environment
\* loaded from it, or lets the error of loading it (EnvironmentFileEmpty)
\* through without trying any further candidate; it raises
\* EnvironmentFileNotFound naming environment.yml exactly when no candidate
\* exists; and it always terminates.
C5_DirectorySearch == [](C5_FirstExisting) /\ <>Done

\* from /a/b, with nothing in /a/b, /a/environment.yml was found and loaded
C5_Witness ==
    /\ pc = "returned"
    /\ directory0 = <<"a", "b">>
    /\ tried = <<<<"a", "b", "environment.yml">>, <<"a", "b", "environment.yaml">>,
                 <<"a", "environment.yml">>>>
    /\ loaded.env.filename = Str(<<"a", "environment.yml">>)

----------------------------------------------------------------------------
(* Claims about from_environment *)

PrimaryTypes == {"None", "NOARCH_GENERIC", "NOARCH_PYTHON"}
ForeignTypes ==
    {"VIRTUAL_PYTHON_WHEEL", "VIRTUAL_PYTHON_EGG_MANAGEABLE", "VIRTUAL_PYTHON_EGG_UNMANAGEABLE"}

Primary == {r \in Range(precs) : r.package_type \in PrimaryTypes}
Foreign == {r \in Range(precs) : r.package_type \in ForeignTypes}

\* 'name=version=build', or 'name=version' when no_builds
PrimaryText(r) ==
    IF no_builds THEN r.name \o <<"=">> \o r.version
    ELSE r.name \o <<"=">> \o r.version \o <<"=">> \o r.build

\* 'name==version'
ForeignText(r) == r.name \o <<"=">> \o <<"=">> \o r.version

\* texts is, entry by entry, the text of the records of S in ascending name order
RendersAscending(texts, S, Text(_)) ==
    /\ Len(texts) = Cardinality(S)
    /\ \A i \in 1..Len(texts) : \E r \in S : texts[i].v = Text(r)
    /\ \A i, j \in 1..Len(texts) :
           i < j => \E r, q \in S : /\ texts[i].v = Text(r) /\ texts[j].v = Text(q)
                                    /\ StrLess(r.name, q.name)

\* the raw dependency list: the primary records as strings in ascending name
\* order, then, only if there is a foreign record, one final {pip: [...]} with
\* the foreign records in ascending name order
C6_Shape ==
    LET plain == SelectSeq(raw.v, LAMBDA e : e.t = "str")
        maps == SelectSeq(raw.v, LAMBDA e : e.t = "dict")
    IN  /\ raw.v = plain \o maps
        /\ RendersAscending(plain, Primary, PrimaryText)
        /\ IF Foreign = {} THEN maps = <<>>
           ELSE /\ Len(maps) = 1
                /\ maps[1].k = "pip"
                /\ RendersAscending(maps[1].v, Foreign, ForeignText)

\* C6 as stated: with from_history false, every installed record is rendered
\* exactly once in the raw dependency list, in the shape above.
C6_EveryRecordOnce ==
    (lastOp = "from_environment" /\ ~from_history) =>
        /\ C6_Shape
        /\ Primary \cup Foreign = Range(precs)

\* C6 as amended: with from_history false, every installed record whose
\* package_type is None, NOARCH_GENERIC or NOARCH_PYTHON (primary) or
\* VIRTUAL_PYTHON_WHEEL, VIRTUAL_PYTHON_EGG_MANAGEABLE or
\* VIRTUAL_PYTHON_EGG_UNMANAGEABLE (foreign) is rendered exactly once, in the
\* shape above, and a record of any other package_type is not rendered at all.
C6_ListedTypesOnce ==
    (lastOp = "from_environment" /\ ~from_history) => C6_Shape

\* b (a wheel) and a (a conda package), in that order, gave ['a=1=0', {pip: ['b==2']}]
C6_Witness ==
    /\ lastOp = "from_environment" /\ ~from_history /\ ~no_builds
    /\ Len(precs) = 2 /\ precs[1].name = <<"b">> /\ precs[2].name = <<"a">>
    /\ raw = List(<<Str(<<"a", "=", "1", "=", "0">>),
                   Dict1("pip", <<Str(<<"b", "=", "=", "2">>)>>)>>)

\* the primary record of least name among those of channel c
FirstContributor(c) ==
    CHOOSE r \in Primary :
        /\ r.channel = c
        /\ \A q \in Primary : q.channel = c => (q = r \/ StrLess(r.name, q.name))

\* C9: with from_history false the channels are the ambient ones when
\* ignore_channels is set; otherwise the channels of the primary records that
\* are not ambient, each once, the one first contributed by the later package
\* (in name order) ahead, followed by the ambient channels in their order.
C9_Channels ==
    (lastOp = "from_environment" /\ ~from_history) =>
        IF ignore_channels THEN channels.v = context_channels
        ELSE \E k \in 0..Len(channels.v) :
                LET new == SubSeq(channels.v, 1, k)
                IN  /\ channels.v = new \o context_channels
                    /\ Range(new) = {r.channel : r \in Primary} \ Range(context_channels)
                    /\ \A i, j \in 1..k : new[i] = new[j] => i = j
                    /\ \A i, j \in 1..k :
                           i < j => StrLess(FirstContributor(new[j]).name,
                                            FirstContributor(new[i]).name)

\* a from channel z and b from channel x, no ambient channel: [x, z]
C9_Witness ==
    /\ lastOp = "from_environment" /\ ~from_history /\ ~ignore_channels
    /\ context_channels = <<>>
    /\ \E r, q \in Primary : r.name = <<"a">> /\ r.channel = c_z
                               /\ q.name = <<"b">> /\ q.channel = c_x
    /\ channels = List(<<c_x, c_z>>)

----------------------------------------------------------------------------
(* The memoised parser configurations and the threads that call the codec *)

\* number of threads calling the codec
NThreads == 2
\* number of codec calls in all
MaxCalls == 3

Threads == 1..NThreads

\* the four codec entry points and the configuration each one asks for
Codec == {"yaml_round_trip_load", "yaml_safe_load", "yaml_round_trip_dump", "yaml_safe_dump"}

KindOf(op) ==
    IF op \in {"yaml_round_trip_load", "yaml_round_trip_dump"} THEN "_yaml_round_trip"
    ELSE "_yaml_safe"

Kinds == {KindOf(op) : op \in Codec}

\* no parser: the cache has no entry, the thread holds none
NoParser == 0

\* the calls begun: those that returned and those under way
Begun == Len(calls) + Cardinality({t \in Threads : tpc[t] # "idle"})

InitCache ==
    /\ cache = [k \in Kinds |-> NoParser]
    /\ tpc = [t \in Threads |-> "idle"]
    /\ tkind = [t \in Threads |-> "_yaml_safe"]
    /\ tparser = [t \in Threads |-> NoParser]
    /\ created = <<>>
    /\ calls = <<>>
    /\ raw0 = None
    /\ \E e \in {Environment(None, None, None, None, None, None)} :
           /\ name = e.name
           /\ filename = e.filename
           /\ prefix = e.prefix
           /\ variables = e.variables
           /\ channels = e.channels
           /\ raw = e.raw
           /\ deps = e.deps
    /\ IdleAux /\ IdleYaml /\ IdleDir /\ IdleLive

\* thread t enters yaml_*_load / yaml_*_dump, which calls _yaml_round_trip() or _yaml_safe()
Call(t, op) ==
    /\ tpc[t] = "idle"
    /\ Begun < MaxCalls
    /\ tkind' = [tkind EXCEPT ![t] = KindOf(op)]
    /\ tparser' = [tparser EXCEPT ![t] = NoParser]
    /\ tpc' = [tpc EXCEPT ![t] = "lookup"]
    /\ UNCHANGED <<cache, created, calls>>

\* the lru_cache wrapper looks the key up: a hit returns the cached parser, a
\* miss goes on to call the wrapped function; no lock is held across the two
Lookup(t) ==
    /\ tpc[t] = "lookup"
    /\ IF cache[tkind[t]] # NoParser
       THEN /\ tparser' = [tparser EXCEPT ![t] = cache[tkind[t]]]
            /\ tpc' = [tpc EXCEPT ![t] = "use"]
       ELSE /\ tpc' = [tpc EXCEPT ![t] = "construct"]
            /\ UNCHANGED tparser
    /\ UNCHANGED <<cache, tkind, created, calls>>

\* parser = yaml.YAML(typ=...); parser.indent(...); return parser
Construct(t) ==
    /\ tpc[t] = "construct"
    /\ created' = Append(created, tkind[t])
    /\ tparser' = [tparser EXCEPT ![t] = Len(created) + 1]
    /\ tpc' = [tpc EXCEPT ![t] = "store"]
    /\ UNCHANGED <<cache, tkind, calls>>

\* the wrapper stores the result under the key, over whatever is there
Store(t) ==
    /\ tpc[t] = "store"
    /\ cache' = [cache EXCEPT ![tkind[t]] = tparser[t]]
    /\ tpc' = [tpc EXCEPT ![t] = "use"]
    /\ UNCHANGED <<tkind, tparser, created, calls>>

\* .load(string) / .dump(object, ostream) on the parser the thread was given
Use(t) ==
    /\ tpc[t] = "use"
    /\ calls' = Append(calls, [thread |-> t, kind |-> tkind[t], parser |-> tparser[t]])
    /\ tpc' = [tpc EXCEPT ![t] = "idle"]
    /\ UNCHANGED <<cache, tkind, tparser, created>>

NextCache ==
    /\ \E t \in Threads :
          \/ \E op \in Codec : Call(t, op)
          \/ Lookup(t)
          \/ Construct(t)
          \/ Store(t)
          \/ Use(t)
    /\ UNCHANGED <<varsEnv, varsAux, varsYaml, varsDir, varsLive>>

SpecCache == InitCache /\ [][NextCache]_vars

----------------------------------------------------------------------------
(* Claims about the parser configurations *)

\* the parsers constructed for a configuration
CreatedOf(k) == {i \in 1..Len(created) : created[i] = k}

\* C10: each of the two parser configurations is constructed at most once, and
\* every call for a configuration uses the same instance, also when several
\* threads make their first call concurrently.
C10_ConstructedOnce ==
    \A k \in Kinds :
        /\ Cardinality(CreatedOf(k)) <= 1
        /\ \A i, j \in 1..Len(calls) :
               (calls[i].kind = k /\ calls[j].kind = k) => calls[i].parser = calls[j].parser

\* calls made one after another construct each configuration once
C10_SequentialOnce ==
    (\A i \in 1..Len(calls) : calls[i].thread = 1) /\ (\A t \in Threads : t # 1 => tpc[t] = "idle")
        => C10_ConstructedOnce

====
